---- MODULE Spec2Model ----
(***************************************************************************)
(* irrenhaus-api: the login check of the public operations, and the        *)
(* paginated crawls of Search (src/Torrent.go, and the tokenizer revision  *)
(* in src/unnamed/part_000) and of the snatch history of Details.          *)
(*                                                                         *)
(* A crawl is an orchestrator (the caller's goroutine) and one goroutine   *)
(* per page.  The two channels of a crawl are unbuffered, so a send and    *)
(* its receive are one step (Recv, Done).  A goroutine is run up to its    *)
(* next channel operation in the step that starts or resumes it.           *)
(***************************************************************************)
EXTENDS Integers, Sequences, FiniteSets, TLC

\* largest page number a pagination anchor carries
MaxPage == 2

Pages == 1..MaxPage
\* task 0 is the goroutine that extracts the first page, task p is
\* crawlTorrentList / crawlSnatchList for page parameter p
Tasks == 0..MaxPage
\* a record is its key (TorrentEntry.Id in Search, Snatch.Name in Details)
\* and val, its other fields as one value

CrawlOps == {"Search", "Details"}
SimpleOps == {"DownloadTorrent", "Upload", "ShoutboxRead", "ShoutboxWrite", "Thank", "CommentWrite"}
Ops == CrawlOps \cup SimpleOps
\* the two revisions of Search and parseTorrentList
Impls == {"goquery", "tokenizer"}

VARIABLES
    op,         \* the public operation being called
    impl,       \* which revision of Search runs
    snatches,   \* the history flag of Details
    pc,         \* position of the caller's goroutine
    cookies,    \* Connection.cookies
    logins,     \* number of login checks (assureLogin) made
    loginErr,   \* what assureLogin returned
    ownReqs,    \* number of requests the operation issued for itself
    err,        \* the error the operation returned
    body,       \* the bytes ioutil.ReadAll returned for the first page, until the scan
    respBody,   \* what is still unread in resp.Body of the first page, until the scan
    maxpage,    \* maxpage
    spawnp,     \* p of the spawning loop
    p,          \* p of the merging loop
    task,       \* the goroutines of the crawl
    emitted,    \* the records the goroutines have sent so far
    canon,      \* the merge of those records taken page by page: per key the record and its page
    dones,      \* completion signals each goroutine delivered
    fetched,    \* requests made per page parameter (0: no page parameter)
    found,      \* foundTorrents / foundSnatches
    list,       \* torrentList / snatches
    crashed,    \* the process died of a panic nobody recovered
    call,       \* the decoder or converter applied to args
    args,       \* its input
    ret,        \* what it returned
    shoutboxRegexp, \* the map of compiled expressions: its keys, and how often it was made
    emojis,     \* the map of code points: its keys, and how often it was made
    strip       \* position of each goroutine that calls ShoutboxStrip

vars == <<op, impl, snatches, pc, cookies, logins, loginErr, ownReqs, err, body, respBody,
          maxpage, spawnp, p, task, emitted, canon, dones, fetched, found, list, crashed,
          call, args, ret, shoutboxRegexp, emojis, strip>>

----------------------------------------------------------------------------
\* Data

ZeroCookies == [Uid |-> 0, Pass |-> ""]
FreshCookies == [Uid |-> 1, Pass |-> "new"]

ZeroEntry == [key |-> 0, val |-> 0]
\* two states of record 1 and one of record 2
OkRows == {[kind |-> "ok", key |-> 1, val |-> 0], [kind |-> "ok", key |-> 1, val |-> 1],
           [kind |-> "ok", key |-> 2, val |-> 0]}
\* a row that makes parseTorrentEntry return an error
BadRow == [kind |-> "bad", key |-> 0, val |-> 0]
\* a row whose size cell has no ','
NoCommaRow == [kind |-> "nocomma", key |-> 0, val |-> 0]

RowSet(o) == IF o = "Search" THEN OkRows \cup {BadRow, NoCommaRow} ELSE OkRows
\* pages of two rows: a record sent before the row that panics, and one
\* record twice on a page
TwoRows(o) ==
    IF o = "Search"
    THEN {<<[kind |-> "ok", key |-> 2, val |-> 0], NoCommaRow>>,
          <<[kind |-> "ok", key |-> 1, val |-> 1], [kind |-> "ok", key |-> 1, val |-> 0]>>}
    ELSE {<<[kind |-> "ok", key |-> 1, val |-> 1], [kind |-> "ok", key |-> 1, val |-> 0]>>}
\* the pages of the model: no row, one row of any kind, two rows
PageRows(o) == {<< >>} \cup {<<r>> : r \in RowSet(o)} \cup TwoRows(o)

\* the pagination anchors of one line of markup, as their page parameters
Lines == {<<a>> : a \in Pages} \cup {<<a, b>> : a, b \in Pages}
\* the anchors of a page: no pager, one pager line, or two
AnchorLines == {<< >>} \cup {<<l>> : l \in Lines} \cup {<<l, m>> : l, m \in Lines}

EmptyDoc == [anchors |-> << >>, rows |-> << >>, failed |-> FALSE]
\* page: the page parameter of the URL the goroutine was given
NoTask == [st |-> "none", rows |-> << >>, panicking |-> FALSE, fetch |-> "none", page |-> 0]

Max(S) == IF S = {} THEN 0 ELSE CHOOSE x \in S : \A y \in S : y <= x
Range(s) == {s[i] : i \in 1..Len(s)}

----------------------------------------------------------------------------
\* The session (src/Irrenhaus.go)

\* Connection.Login: lg is what the POST to takelogin.php met
Login(ck, lg) ==
    CASE lg = "neterr" -> [err |-> "neterr", cookies |-> ck]
      [] lg = "failed" -> [err |-> "invalid credentials", cookies |-> ck]
      [] OTHER -> [err |-> "nil", cookies |-> FreshCookies]

\* Connection.assureLogin: my is what the GET of /my.php met
assureLogin(ck, my, lg) ==
    CASE my = "neterr" -> [err |-> "neterr", cookies |-> ck]
      [] my = "nolocation" -> [err |-> "nil", cookies |-> ck]
      [] my = "login.php" -> Login(ck, lg)
      [] OTHER -> [err |-> "nil", cookies |-> ck]

MyOutcomes == {"neterr", "nolocation", "login.php", "elsewhere"}
LoginOutcomes == {"neterr", "failed", "ok"}

\* variant: a get that logs in again when its request fails
getRelogin(ck, n, out) ==
    IF out = "neterr"
    THEN [cookies |-> FreshCookies, logins |-> n + 1, err |-> "neterr"]
    ELSE [cookies |-> ck, logins |-> n, err |-> "nil"]

\* Connection.get has a value receiver: it sends the cookies of its copy of
\* the Connection and leaves the Connection as it is
get(ck, n, out) ==
    [cookies |-> ck, logins |-> n, err |-> IF out = "neterr" THEN "neterr" ELSE "nil"]

\* the operations that return the error of the login check
ChecksLogin(o) == o \in {"DownloadTorrent", "Upload", "Search", "Details"}

----------------------------------------------------------------------------
\* Reading and scanning the first page

\* ioutil.ReadAll(resp.Body): everything the stream still holds, and the
\* stream left at its end
ReadAll(stream) ==
    [data |-> [stream EXCEPT !.failed = FALSE],
     rest |-> [anchors |-> << >>, rows |-> << >>, failed |-> stream.failed]]

\* regexp "<a href=\"(.+&page=(\\d+))\".*>" over string(body): '.' stops at
\* a line end and ".+" is greedy, so each line gives one match, whose page
\* number is that of the last anchor of the line
pageOfLine(line) == line[Len(line)]
pageCountRegexp(b) == Max({pageOfLine(b.anchors[i]) : i \in 1..Len(b.anchors)})

\* doc.Find("p[align=center] a") and regexp "page=(\\d+)" on every href
pageCountSelector(doc) == Max(UNION {Range(doc.anchors[i]) : i \in 1..Len(doc.anchors)})

\* the page count the crawl of operation o in revision v takes: Search of
\* src/Torrent.go builds its document from resp after ReadAll has read it
pageCount(o, v, b, rest) ==
    IF o = "Search" /\ v = "goquery" THEN pageCountSelector(rest) ELSE pageCountRegexp(b)

\* goquery.NewDocumentFromResponse fails when reading resp.Body fails
documentErr(o, v, rest) == o = "Search" /\ v = "goquery" /\ rest.failed

----------------------------------------------------------------------------
\* The extraction goroutines

\* the record a row is sent as
EntryOf(r) == IF r.kind = "ok" THEN [key |-> r.key, val |-> r.val] ELSE ZeroEntry

\* whether parseTorrentList sends the record of row r: the goquery revision
\* returns from the row callback on an error, the tokenizer revision only
\* prints the error
SendsRow(r, v) == r.kind = "ok" \/ (r.kind = "bad" /\ v = "tokenizer")

RECURSIVE RunParser(_, _)
\* parseTorrentList / parseSnatches from the rows not yet visited up to the
\* next channel operation: the send of a record, or the deferred completion
\* signal (at the end of the page, or while panicking on a size cell
\* without ',')
RunParser(rows, v) ==
    IF rows = << >> THEN [st |-> "done", rows |-> << >>, panicking |-> FALSE]
    ELSE IF Head(rows).kind = "nocomma" THEN [st |-> "done", rows |-> << >>, panicking |-> TRUE]
    ELSE IF SendsRow(Head(rows), v) THEN [st |-> "send", rows |-> rows, panicking |-> FALSE]
    ELSE RunParser(Tail(rows), v)

\* a goroutine at its next channel operation: f is how its request ended
Started(r, f, pg) == [st |-> r.st, rows |-> r.rows, panicking |-> r.panicking, fetch |-> f, page |-> pg]

\* the record of key e.key that the merge keeps when the pages are merged
\* one after the other, first page first: the one of the later page, and of
\* one page the later record
PageOrder(c, e, t) ==
    [k \in DOMAIN c \cup {e.key} |->
        IF k = e.key /\ (k \notin DOMAIN c \/ c[k].from <= t)
        THEN [key |-> e.key, val |-> e.val, from |-> t]
        ELSE c[k]]

\* variant: the map is keyed by another field of the record
MergeByVal(f, e) == [k \in DOMAIN f \cup {e.val} |-> IF k = e.val THEN e ELSE f[k]]

\* variant: the map is made anew for every record
MergeLastOnly(f, e) == [k \in {e.key} |-> e]

\* foundTorrents[torrent.Id] = torrent
Merge(f, e) == [k \in DOMAIN f \cup {e.key} |-> IF k = e.key THEN e ELSE f[k]]

\* make([]TorrentEntry, len(foundTorrents))
MakeList(n) == [i \in 1..n |-> ZeroEntry]

\* variant: the merging loop stops one completion signal early
MergingLt(pp, mp) == pp < mp

\* the condition of the merging loop: for p := int64(0); p <= maxpage;
Merging(pp, mp) == pp <= mp

\* variant: the spawning loop stops one page early
SpawningLt(pp, mp) == pp < mp

\* the condition of the spawning loop: for p := int64(1); p <= maxpage; p++
Spawning(pp, mp) == pp <= mp

\* variant: the completion signal is deferred only after the error check
crawlFailedSilent(pg) ==
    [st |-> "exit", rows |-> << >>, panicking |-> FALSE, fetch |-> "err", page |-> pg]

\* crawlTorrentList / crawlSnatchList when c.get fails: the error is logged
\* and the function returns, which runs the deferred completion signal
crawlFailed(pg) ==
    [st |-> "done", rows |-> << >>, panicking |-> FALSE, fetch |-> "err", page |-> pg]

\* the orders in which range may visit a map
Orders(S) == {s \in [1..Cardinality(S) -> S] : \A i, j \in 1..Cardinality(S) : i # j => s[i] # s[j]}

----------------------------------------------------------------------------
\* Construction

\* a Connection as NewConnection returns it, no operation called yet
Idle ==
    /\ op = "none"
    /\ impl = "goquery"
    /\ snatches = FALSE
    /\ pc = "idle"
    /\ cookies = ZeroCookies
    /\ logins = 0
    /\ loginErr = "nil"
    /\ ownReqs = 0
    /\ err = "nil"
    /\ body = EmptyDoc
    /\ respBody = EmptyDoc
    /\ maxpage = 0
    /\ spawnp = 0
    /\ p = 0
    /\ task = [t \in Tasks |-> NoTask]
    /\ emitted = {}
    /\ canon = << >>
    /\ dones = [t \in Tasks |-> 0]
    /\ fetched = [t \in Tasks |-> 0]
    /\ found = << >>
    /\ list = << >>
    /\ crashed = FALSE

\* the goroutines that call ShoutboxStrip
Callers == {1, 2}

\* the package before any call of ShoutboxStrip: both maps nil
Unloaded ==
    /\ shoutboxRegexp = [keys |-> {}, makes |-> 0]
    /\ emojis = [keys |-> {}, makes |-> 0]
    /\ strip = [c \in Callers |-> [pc |-> "idle", k |-> 1]]

Init ==
    /\ Idle
    /\ Unloaded
    /\ call = "none"
    /\ args = << >>
    /\ ret = << >>

\* the variables of the decoders and converters
decodeVars == <<call, args, ret, shoutboxRegexp, emojis, strip>>

crawlVars == <<body, respBody, maxpage, spawnp, p, task, emitted, canon, dones, fetched, found, list, crashed>>

----------------------------------------------------------------------------
\* The operations without a crawl

\* DownloadTorrent, Upload, ShoutboxRead, ShoutboxWrite, Thank, CommentWrite:
\* the login check, then the operation's request
SimpleCall(o, my, lg, out) ==
    /\ pc = "idle"
    /\ o \in SimpleOps
    /\ LET r == assureLogin(cookies, my, lg) IN
        /\ op' = o
        /\ cookies' = r.cookies
        /\ logins' = logins + 1
        /\ loginErr' = r.err
        /\ IF ChecksLogin(o) /\ r.err # "nil"
           THEN /\ err' = r.err
                /\ ownReqs' = ownReqs
           ELSE /\ err' = get(r.cookies, logins + 1, out).err
                /\ ownReqs' = ownReqs + 1
    /\ pc' = "returned"
    /\ UNCHANGED <<impl, snatches>>
    /\ UNCHANGED crawlVars
    /\ UNCHANGED decodeVars

----------------------------------------------------------------------------
\* Search and Details, up to the crawl

\* the login check of Search and of Details
CrawlCall(o, v, s, my, lg) ==
    /\ pc = "idle"
    /\ o \in CrawlOps
    /\ o = "Details" => v = "goquery"
    /\ o = "Search" => s = FALSE
    /\ LET r == assureLogin(cookies, my, lg) IN
        /\ cookies' = r.cookies
        /\ logins' = logins + 1
        /\ loginErr' = r.err
        /\ IF ChecksLogin(o) /\ r.err # "nil"
           THEN pc' = "returned" /\ err' = r.err
           ELSE pc' = "request" /\ err' = err
    /\ op' = o
    /\ impl' = v
    /\ snatches' = s
    /\ UNCHANGED ownReqs
    /\ UNCHANGED crawlVars
    /\ UNCHANGED decodeVars

\* Search from the request of /browse.php to the start of the goroutine
\* that extracts the first page
SearchFetch(out, stream) ==
    /\ pc = "request"
    /\ op = "Search"
    /\ ownReqs' = ownReqs + 1
    /\ fetched' = [fetched EXCEPT ![0] = @ + 1]
    /\ IF get(cookies, logins, out).err # "nil"
       THEN /\ pc' = "returned"
            /\ err' = get(cookies, logins, out).err
            /\ UNCHANGED <<body, respBody, list, task>>
       ELSE /\ body' = ReadAll(stream).data
            /\ respBody' = ReadAll(stream).rest
            /\ list' = MakeList(Cardinality(DOMAIN found))
            /\ task' = [task EXCEPT ![0] = Started(RunParser(stream.rows, impl), "ok", 0)]
            /\ pc' = "paginate"
            /\ err' = err
    /\ UNCHANGED <<op, impl, snatches, cookies, logins, loginErr, maxpage, spawnp, p, emitted, canon, dones, found, crashed>>
    /\ UNCHANGED decodeVars

\* variant: a 404 is noted but the history is still fetched
detailsReturnLate(out, s) ==
    CASE out = "neterr" -> [pc |-> "returned", err |-> "neterr"]
      [] out = "404" -> [pc |-> IF s THEN "snatchreq" ELSE "returned", err |-> "torrent not found"]
      [] out = "parseerr" -> [pc |-> "returned", err |-> "parse error"]
      [] OTHER -> [pc |-> IF s THEN "snatchreq" ELSE "returned", err |-> "nil"]

\* where Details goes after its request of /details.php: every error is
\* returned as (nil, err), so err other than nil means no entry; only a page
\* that was fetched, is no 404 and parses goes on to the history
detailsReturn(out, s) ==
    CASE out = "neterr" -> [pc |-> "returned", err |-> "neterr"]
      [] out = "404" -> [pc |-> "returned", err |-> "torrent not found"]
      [] out = "parseerr" -> [pc |-> "returned", err |-> "parse error"]
      [] OTHER -> [pc |-> IF s THEN "snatchreq" ELSE "returned", err |-> "nil"]

\* Details from the request of /details.php to parseTorrentDetails
DetailsFetch(out) ==
    /\ pc = "request"
    /\ op = "Details"
    /\ ownReqs' = ownReqs + 1
    /\ pc' = detailsReturn(out, snatches).pc
    /\ err' = detailsReturn(out, snatches).err
    /\ UNCHANGED <<op, impl, snatches, cookies, logins, loginErr>>
    /\ UNCHANGED crawlVars
    /\ UNCHANGED decodeVars

\* Details from the request of /viewsnatches.php to the start of the
\* goroutine that extracts the first history page
SnatchFetch(out, stream) ==
    /\ pc = "snatchreq"
    /\ fetched' = [fetched EXCEPT ![0] = @ + 1]
    /\ CASE out = "neterr" ->
                /\ pc' = "returned"
                /\ err' = get(cookies, logins, out).err
                /\ UNCHANGED <<body, respBody, list, task>>
         [] out = "404" ->
                /\ pc' = "returned"
                /\ err' = err
                /\ UNCHANGED <<body, respBody, list, task>>
         [] OTHER ->
                /\ body' = ReadAll(stream).data
                /\ respBody' = ReadAll(stream).rest
                /\ list' = MakeList(0)
                /\ task' = [task EXCEPT ![0] = Started(RunParser(stream.rows, impl), "ok", 0)]
                /\ pc' = "paginate"
                /\ err' = err
    /\ ownReqs' = ownReqs + 1
    /\ UNCHANGED <<op, impl, snatches, cookies, logins, loginErr, maxpage, spawnp, p, emitted, canon, dones, found, crashed>>
    /\ UNCHANGED decodeVars

\* the scan of the first page for its pagination anchors
Paginate ==
    /\ pc = "paginate"
    /\ ~crashed
    /\ IF documentErr(op, impl, respBody)
       THEN /\ pc' = "returned"
            /\ err' = "neterr"
            /\ UNCHANGED <<maxpage, spawnp>>
       ELSE /\ maxpage' = pageCount(op, impl, body, respBody)
            /\ spawnp' = 1
            /\ pc' = IF maxpage' > 0 /\ Spawning(1, maxpage') THEN "spawn" ELSE "merge"
            /\ err' = err
    /\ body' = EmptyDoc
    /\ respBody' = EmptyDoc
    /\ UNCHANGED <<op, impl, snatches, cookies, logins, loginErr, ownReqs,
                   p, task, emitted, canon, dones, fetched, found, list, crashed>>
    /\ UNCHANGED decodeVars

\* variant: the URL is built from the shared query value when the goroutine
\* runs, after the loop has set its last page
pageParamShared(pp) == maxpage

\* data.Set("page", fmt.Sprintf("%d", p)) and buildUrl: the URL is a string
\* built before the goroutine starts, so it keeps the page it was built for
pageParam(pp) == pp

\* go crawlTorrentList(c, pageURL, p, ...) / go crawlSnatchList(...)
Spawn ==
    /\ pc = "spawn"
    /\ ~crashed
    /\ Spawning(spawnp, maxpage)
    /\ task' = [task EXCEPT ![spawnp] = [NoTask EXCEPT !.st = "fetch", !.page = pageParam(spawnp)]]
    /\ spawnp' = spawnp + 1
    /\ pc' = IF Spawning(spawnp + 1, maxpage) THEN "spawn" ELSE "merge"
    /\ UNCHANGED <<op, impl, snatches, cookies, logins, loginErr, ownReqs, err, body, respBody,
                   maxpage, p, emitted, canon, dones, fetched, found, list, crashed>>
    /\ UNCHANGED decodeVars

----------------------------------------------------------------------------
\* The goroutines of a crawl

\* crawlTorrentList / crawlSnatchList from c.get(url) to the first channel
\* operation: a failed request leaves only the deferred completion signal
TaskFetch(t, out, rows) ==
    /\ ~crashed
    /\ task[t].st = "fetch"
    /\ rows \in PageRows(op)
    /\ cookies' = get(cookies, logins, out).cookies
    /\ logins' = get(cookies, logins, out).logins
    /\ fetched' = [fetched EXCEPT ![task[t].page] = @ + 1]
    /\ IF get(cookies, logins, out).err # "nil"
       THEN /\ rows = << >>
            /\ task' = [task EXCEPT ![t] = crawlFailed(task[t].page)]
       ELSE /\ task' = [task EXCEPT ![t] = Started(RunParser(rows, impl), "ok", task[t].page)]
    /\ UNCHANGED <<op, impl, snatches, pc, loginErr, ownReqs, err, body, respBody,
                   maxpage, spawnp, p, emitted, canon, dones, found, list, crashed>>
    /\ UNCHANGED decodeVars

\* ch <- torrentEntry in goroutine t, case torrent := <-chTorrents in the
\* merging loop
Recv(t) ==
    /\ ~crashed
    /\ pc = "merge"
    /\ Merging(p, maxpage)
    /\ task[t].st = "send"
    /\ found' = Merge(found, EntryOf(Head(task[t].rows)))
    /\ emitted' = emitted \cup {EntryOf(Head(task[t].rows))}
    /\ canon' = PageOrder(canon, EntryOf(Head(task[t].rows)), t)
    /\ task' = [task EXCEPT ![t] = Started(RunParser(Tail(task[t].rows), impl), task[t].fetch, task[t].page)]
    /\ UNCHANGED <<op, impl, snatches, pc, cookies, logins, loginErr, ownReqs, err, body, respBody,
                   maxpage, spawnp, p, dones, fetched, list, crashed>>
    /\ UNCHANGED decodeVars

\* the deferred chFinished <- true of goroutine t, case <-chFinished in the
\* merging loop
Done(t) ==
    /\ ~crashed
    /\ pc = "merge"
    /\ Merging(p, maxpage)
    /\ task[t].st = "done"
    /\ p' = p + 1
    /\ dones' = [dones EXCEPT ![t] = @ + 1]
    /\ task' = [task EXCEPT ![t].st = IF task[t].panicking THEN "dying" ELSE "exit"]
    /\ UNCHANGED <<op, impl, snatches, pc, cookies, logins, loginErr, ownReqs, err, body, respBody,
                   maxpage, spawnp, emitted, canon, fetched, found, list, crashed>>
    /\ UNCHANGED decodeVars

\* a panicking goroutine has run its deferred function: nothing recovers
\* the panic and the runtime ends the process
Crash(t) ==
    /\ ~crashed
    /\ task[t].st = "dying"
    /\ crashed' = TRUE
    /\ UNCHANGED <<op, impl, snatches, pc, cookies, logins, loginErr, ownReqs, err, body, respBody,
                   maxpage, spawnp, p, task, emitted, canon, dones, fetched, found, list>>
    /\ UNCHANGED decodeVars

\* the end of the merging loop: the channels are closed and the map is
\* copied to the list in the order range visits it
Return(ord) ==
    /\ ~crashed
    /\ pc = "merge"
    /\ ~Merging(p, maxpage)
    /\ ord \in Orders(DOMAIN found)
    /\ list' = list \o [i \in 1..Len(ord) |-> found[ord[i]]]
    /\ pc' = "returned"
    /\ UNCHANGED <<op, impl, snatches, cookies, logins, loginErr, ownReqs, err, body, respBody,
                   maxpage, spawnp, p, task, emitted, canon, dones, fetched, found, crashed>>
    /\ UNCHANGED decodeVars

----------------------------------------------------------------------------
\* Specification

Streams(o) == [anchors : AnchorLines, rows : PageRows(o), failed : BOOLEAN]

\* Search's request of /browse.php with whatever the site answers
SearchResponse ==
    /\ pc = "request"
    /\ op = "Search"
    /\ \E out \in {"neterr", "ok"}, stream \in Streams("Search") : SearchFetch(out, stream)

\* Details' request of /viewsnatches.php with whatever the site answers
SnatchResponse ==
    /\ pc = "snatchreq"
    /\ \E out \in {"neterr", "404", "ok"}, stream \in Streams("Details") : SnatchFetch(out, stream)

Next ==
    \/ \E o \in SimpleOps, my \in MyOutcomes, lg \in LoginOutcomes, out \in {"neterr", "ok"} :
          SimpleCall(o, my, lg, out)
    \/ \E o \in CrawlOps, v \in Impls, s \in BOOLEAN, my \in MyOutcomes, lg \in LoginOutcomes :
          CrawlCall(o, v, s, my, lg)
    \/ SearchResponse
    \/ \E out \in {"neterr", "404", "parseerr", "ok"} : DetailsFetch(out)
    \/ SnatchResponse
    \/ Paginate
    \/ Spawn
    \/ \E t \in Tasks, out \in {"neterr", "ok"}, rows \in PageRows(op) : TaskFetch(t, out, rows)
    \/ \E t \in Tasks : Recv(t)
    \/ \E t \in Tasks : Done(t)
    \/ \E t \in Tasks : Crash(t)
    \/ \E ord \in Orders(DOMAIN found) : Return(ord)

Spec == Init /\ [][Next]_vars

\* every runnable goroutine is scheduled and every request ends (the client
\* has a timeout), so no step of a crawl stays enabled forever without
\* being taken
FairSpec ==
    /\ Spec
    /\ WF_vars(SearchResponse)
    /\ WF_vars(Paginate)
    /\ WF_vars(Spawn)
    /\ \A t \in Tasks :
          /\ WF_vars(\E out \in {"neterr", "ok"}, rows \in PageRows(op) : TaskFetch(t, out, rows))
          /\ WF_vars(Recv(t))
          /\ WF_vars(Done(t))
          /\ WF_vars(Crash(t))
    /\ WF_vars(\E ord \in Orders(DOMAIN found) : Return(ord))

----------------------------------------------------------------------------
\* The chat feed (src/Shoutbox.go, and the revision in src/unnamed/part_001)

\* the two revisions of ShoutboxRead: src/Shoutbox.go reads the payload
\* through sanitizeJSON, src/unnamed/part_001 through a charmap decoder
Revs == {"sanitize", "charmap"}

\* a message body is a sequence of tags and text
Bodies == {<<"a">>, <<"<b>", "a", "</b>">>}

\* a tuple of the payload: id is jmsg[0], uid jmsg[1], msg jmsg[5] and type
\* jmsg[6]
Tuples == [id : {"", "7"}, uid : {"1", "2"}, msg : Bodies, type : {"", "sys"}]

TupleSeqs == {<< >>} \cup {<<a>> : a \in Tuples} \cup {<<a, b>> : a, b \in Tuples}
                \cup {<<a, b, c>> : a, b, c \in Tuples}

\* a payload: len is its length in bytes (3 stands for 3 or more), tabs the
\* number of tab characters in it, array whether it is a JSON array of
\* arrays of strings, whose elements are then tuples, marker whether it
\* contains "Die Serverlast ist Momentan zu hoch", and chars whether it
\* contains any single character of that text
Payloads ==
    {[len |-> 0, tabs |-> 0, array |-> FALSE, tuples |-> << >>, marker |-> FALSE, chars |-> FALSE]}
    \cup {[len |-> 1, tabs |-> t, array |-> FALSE, tuples |-> << >>, marker |-> FALSE, chars |-> c] :
            t \in {0, 1}, c \in BOOLEAN}
    \cup {[len |-> 2, tabs |-> 0, array |-> TRUE, tuples |-> << >>, marker |-> FALSE, chars |-> FALSE]}
    \cup {[len |-> 3, tabs |-> t, array |-> TRUE, tuples |-> ts, marker |-> FALSE, chars |-> TRUE] :
            t \in {0, 1}, ts \in TupleSeqs \ {<< >>}}
    \cup {[len |-> 3, tabs |-> 0, array |-> FALSE, tuples |-> << >>, marker |-> m, chars |-> c] :
            m \in BOOLEAN, c \in BOOLEAN}

\* sanitizeJSON: every tab becomes four spaces
sanitizeJSON(b) ==
    [b EXCEPT !.len = IF b.len + 3 * b.tabs > 3 THEN 3 ELSE b.len + 3 * b.tabs,
              !.tabs = 0,
              !.chars = b.chars \/ b.tabs > 0]

\* the payload as ShoutboxRead and ShoutboxWrite of revision v decode it
readBody(v, b) == IF v = "sanitize" THEN sanitizeJSON(b) ELSE b

\* json.Unmarshal(body, &jsonMsg): a tab inside a string is not JSON
Unmarshal(b) ==
    IF b.array /\ b.tabs = 0 THEN [err |-> "nil", jsonMsg |-> b.tuples]
    ELSE [err |-> "decode", jsonMsg |-> << >>]

\* variant: only the empty body counts as no new data
isShortEmpty(b) == b.len < 1

\* len(body) <= 1
isShort(b) == b.len <= 1

\* the test for the overload marker once decoding has failed: bytes.Contains
\* in src/Shoutbox.go, bytes.ContainsAny in src/unnamed/part_001
overloaded(v, b) == IF v = "sanitize" THEN b.marker ELSE b.chars

\* strconv.ParseInt of a field: 0 when the field is no number
ParseInt(str) ==
    CASE str = "1" -> 1
      [] str = "2" -> 2
      [] str = "7" -> 7
      [] OTHER -> 0

\* The steps of ShoutboxStrip on a message written as pieces: tags, words,
\* "\n", entities.  The messages of the model hold no image other than an
\* emoji, no link, font or nfo markup, so the expressions for these find
\* nothing to replace.

\* the four wrappers of shoutboxRegexpInit, "<b>(.+)</b>" and the like, in
\* the order ShoutboxStrip applies them
Wrappers == <<[open |-> "<center>", close |-> "</center>"], [open |-> "<b>", close |-> "</b>"],
              [open |-> "<i>", close |-> "</i>"], [open |-> "<u>", close |-> "</u>"]>>

\* the end of the line of piece i: '.' matches no "\n"
lineEnd(text, i) ==
    IF \A k \in i..Len(text) : text[k] # "\n" THEN Len(text) + 1
    ELSE CHOOSE k \in i..Len(text) : text[k] = "\n" /\ \A l \in i..(k - 1) : text[l] # "\n"

RECURSIVE replaceWrapped(_, _, _)
\* ReplaceAllString(text, "$1") for open(.+)close: the match starts at the
\* first open that has a close later on its line, with something between,
\* and (.+) takes as much as it can, up to the last close of the line
replaceWrapped(text, open, close) ==
    LET closes(i) == {j \in (i + 2)..(lineEnd(text, i) - 1) : text[j] = close}
        starts == {i \in 1..Len(text) : text[i] = open /\ closes(i) # {}}
    IN IF starts = {} THEN text
       ELSE LET i == CHOOSE x \in starts : \A y \in starts : x <= y
                j == Max(closes(i))
            IN SubSeq(text, 1, i - 1) \o SubSeq(text, i + 1, j - 1)
                  \o replaceWrapped(SubSeq(text, j + 1, Len(text)), open, close)

RECURSIVE stripWrappers(_, _)
\* the wrappers from the n-th on, one after the other
stripWrappers(text, n) ==
    IF n > Len(Wrappers) THEN text
    ELSE stripWrappers(replaceWrapped(text, Wrappers[n].open, Wrappers[n].close), n + 1)

\* an image of the emoji path: its markup up to the directory, the pieces
\* of the file name, the closing quote and '>'
ImgOpen == "<img src=\"/pic/smilies/"
ImgClose == "\">"

RECURSIVE replaceEmoji(_)
\* ReplaceAllString(text, "emoji:$2") for the "emoji" expression: ([^"]+)
\* is the file name up to the next quote
replaceEmoji(text) ==
    LET closes(i) == {j \in (i + 2)..Len(text) : text[j] = ImgClose}
        starts == {i \in 1..Len(text) : text[i] = ImgOpen /\ closes(i) # {}}
    IN IF starts = {} THEN text
       ELSE LET i == CHOOSE x \in starts : \A y \in starts : x <= y
                j == CHOOSE x \in closes(i) : \A y \in closes(i) : x <= y
            IN SubSeq(text, 1, i - 1) \o <<"emoji:">> \o SubSeq(text, i + 1, j - 1)
                  \o replaceEmoji(SubSeq(text, j + 1, Len(text)))

RECURSIVE ReplaceAll(_, _, _)
\* strings.Replace(text, old, new, -1)
ReplaceAll(text, old, new) ==
    IF Len(text) < Len(old) THEN text
    ELSE IF SubSeq(text, 1, Len(old)) = old
         THEN new \o ReplaceAll(SubSeq(text, Len(old) + 1, Len(text)), old, new)
         ELSE <<Head(text)>> \o ReplaceAll(Tail(text), old, new)

\* the five replacements of line breaks and of the non-breaking space
replaceBreaks(text) ==
    LET s1 == ReplaceAll(text, <<"<br>", "\n">>, <<"\n">>)
        s2 == ReplaceAll(s1, <<"<br>">>, << >>)
        s3 == ReplaceAll(s2, <<"<br/>", "\n">>, <<"\n">>)
        s4 == ReplaceAll(s3, <<"<br/>">>, << >>)
    IN ReplaceAll(s4, <<"&nbsp;">>, <<" ">>)

\* the table emojiInit builds, for three of its names: smile1.gif is set to
\* 0x1F600 and later to 0xFFFD, which is what the map keeps
EmojiTable ==
    [n \in {"thx.gif", "smile1.gif", "jippie.gif"} |-> IF n = "thx.gif" THEN "U+1F44D" ELSE "U+FFFD"]

RECURSIVE emojifyOver(_, _)
\* the loop of emojify over the names not yet visited: every "emoji:" with
\* the name after it becomes the code point.  No search text of the table
\* is part of another, so the order range takes does not show
emojifyOver(names, s) ==
    IF names = {} THEN s
    ELSE LET image == CHOOSE n \in names : TRUE
         IN emojifyOver(names \ {image}, ReplaceAll(s, <<"emoji:", image>>, <<EmojiTable[image]>>))

emojify(s) == emojifyOver(DOMAIN EmojiTable, s)

\* html.UnescapeString on the entities of the model
UnescapeString(text) == ReplaceAll(ReplaceAll(text, <<"&amp;">>, <<"&">>), <<"&lt;">>, <<"<">>)

\* ShoutboxStrip
ShoutboxStrip(msg) == UnescapeString(emojify(replaceBreaks(replaceEmoji(stripWrappers(msg, 1)))))

\* the parts messages are made of: a span in each wrapper, a bold span over
\* two lines, a span in two wrappers, words, line breaks, entities, and
\* emoji images with a name of the table, with other names, with a name in
\* a directory and with a name that goes on after a name of the table
Image(name) == <<ImgOpen>> \o name \o <<ImgClose>>
Parts ==
    {<<Wrappers[n].open, "hi", Wrappers[n].close>> : n \in 1..Len(Wrappers)}
    \cup {<<"<b>", "hi", "\n", "x", "</b>">>, <<"<b>", "<i>", "hi", "</i>", "</b>">>}
    \cup {<<"hi">>, <<" ">>, <<"\n">>, <<"<br>">>, <<"<br/>">>, <<"&nbsp;">>, <<"&amp;">>}
    \cup {Image(n) : n \in {<<"thx.gif">>, <<"smile1.gif">>, <<"nope.gif">>,
                             <<"new/", "thx.gif">>, <<"thx.gif", ".png">>}}

\* the messages: up to three parts one after the other
StripTexts == Parts \cup {a \o b : a, b \in Parts} \cup {a \o b \o c : a, b, c \in Parts}

\* variant: the first tuple is only read, not returned
decodeTupleNoEvent(i, jmsg) ==
    IF i = 1 \/ jmsg.id = "" \/ jmsg.type # "" THEN << >>
    ELSE <<[event |-> FALSE, Id |-> ParseInt(jmsg.id), UserId |-> ParseInt(jmsg.uid),
            Message |-> ShoutboxStrip(jmsg.msg), wire |-> i]>>

\* one round of the loop over jsonMsg: what it appends to messages for the
\* i-th tuple (the first tuple is i = 1); wire is the tuple's place in the
\* payload
decodeTuple(i, jmsg) ==
    IF i = 1
    THEN <<[event |-> TRUE, Id |-> 0, UserId |-> 0, Message |-> << >>, wire |-> i]>>
    ELSE IF jmsg.id = "" \/ jmsg.type # "" THEN << >>
    ELSE <<[event |-> FALSE, Id |-> ParseInt(jmsg.id), UserId |-> ParseInt(jmsg.uid),
            Message |-> ShoutboxStrip(jmsg.msg), wire |-> i]>>

RECURSIVE decodeFrom(_, _)
\* the loop over jsonMsg from the i-th tuple on
decodeFrom(i, jsonMsg) ==
    IF i > Len(jsonMsg) THEN << >>
    ELSE decodeTuple(i, jsonMsg[i]) \o decodeFrom(i + 1, jsonMsg)

\* variant: the messages are returned as they were appended
keepOrder(msgs) == msgs

\* the reversing loop at the end of ShoutboxRead
reverse(msgs) == [i \in 1..Len(msgs) |-> msgs[Len(msgs) + 1 - i]]

\* ShoutboxRead of revision v from the payload on: isnil tells the nil slice
\* from the empty one
shoutboxRead(v, b) ==
    LET bd == readBody(v, b) IN
    IF isShort(bd) THEN [messages |-> << >>, isnil |-> TRUE, err |-> "nil"]
    ELSE IF Unmarshal(bd).err # "nil"
         THEN [messages |-> << >>, isnil |-> TRUE,
               err |-> IF overloaded(v, bd) THEN "serverload" ELSE Unmarshal(bd).err]
         ELSE [messages |-> reverse(decodeFrom(1, Unmarshal(bd).jsonMsg)), isnil |-> FALSE, err |-> "nil"]

\* variant: the body is not compared
matchesUid(jmsg, uid, message) == jmsg.id # "" /\ ParseInt(jmsg.uid) = uid

\* the test ShoutboxWrite makes on a tuple of the response
matches(jmsg, uid, message) ==
    jmsg.id # "" /\ ParseInt(jmsg.uid) = uid /\ jmsg.msg = message

\* ShoutboxWrite from the response on, uid being c.cookies.Uid
shoutboxWrite(b, uid, message) ==
    LET bd == sanitizeJSON(b) IN
    IF Unmarshal(bd).err # "nil" THEN [ok |-> FALSE, err |-> Unmarshal(bd).err]
    ELSE [ok |-> \E i \in 1..Len(Unmarshal(bd).jsonMsg) : matches(Unmarshal(bd).jsonMsg[i], uid, message),
          err |-> "nil"]

----------------------------------------------------------------------------
\* The field converters of the extractors (src/Torrent.go, and the
\* tokenizer revision in src/unnamed/part_000).  A cell text is a sequence
\* of pieces: runs of digits, separators, words.

\* the runs of digits of the model, with their value and their length
DigitRuns ==
    [r \in {"00", "01", "03", "04", "05", "1", "2", "234", "50", "56"} |->
        CASE r = "00" -> [val |-> 0, len |-> 2]
          [] r = "01" -> [val |-> 1, len |-> 2]
          [] r = "03" -> [val |-> 3, len |-> 2]
          [] r = "04" -> [val |-> 4, len |-> 2]
          [] r = "05" -> [val |-> 5, len |-> 2]
          [] r = "1" -> [val |-> 1, len |-> 1]
          [] r = "2" -> [val |-> 2, len |-> 1]
          [] r = "234" -> [val |-> 234, len |-> 3]
          [] r = "50" -> [val |-> 50, len |-> 2]
          [] OTHER -> [val |-> 56, len |-> 2]]

IsDigits(t) == t \in DOMAIN DigitRuns

Pow10(n) == CASE n = 1 -> 10 [] n = 2 -> 100 [] OTHER -> 1000

RECURSIVE RunsVal(_)
\* the number that runs of digits written one after the other denote
RunsVal(runs) ==
    IF runs = << >> THEN 0
    ELSE LET last == DigitRuns[runs[Len(runs)]]
         IN RunsVal(SubSeq(runs, 1, Len(runs) - 1)) * Pow10(last.len) + last.val

\* strconv.ParseUint / ParseInt of a text: it must be one run of digits
ParseUint(text) ==
    IF Len(text) = 1 /\ IsDigits(text[1]) THEN [err |-> FALSE, val |-> DigitRuns[text[1]].val]
    ELSE [err |-> TRUE, val |-> 0]

\* the decimal numbers written as one piece, in hundredths
Decimals == [t \in {"1.50", "0.75"} |-> IF t = "1.50" THEN 150 ELSE 75]

\* strconv.ParseFloat of a text, in hundredths: one decimal number, or runs
\* of digits, a '.' and two digits
ParseFloat(text) ==
    IF Len(text) = 1 /\ text[1] \in DOMAIN Decimals
    THEN [err |-> FALSE, val |-> Decimals[text[1]]]
    ELSE IF /\ Len(text) >= 3
            /\ text[Len(text) - 1] = "."
            /\ \A i \in (1..Len(text)) \ {Len(text) - 1} : IsDigits(text[i])
            /\ DigitRuns[text[Len(text)]].len = 2
         THEN [err |-> FALSE,
               val |-> RunsVal(SubSeq(text, 1, Len(text) - 2)) * 100 + DigitRuns[text[Len(text)]].val]
         ELSE [err |-> TRUE, val |-> 0]

\* strings.IndexByte: the place of the first c, 0 when there is none
IndexByte(text, c) ==
    IF \A i \in 1..Len(text) : text[i] # c THEN 0
    ELSE CHOOSE i \in 1..Len(text) : text[i] = c /\ \A j \in 1..(i - 1) : text[j] # c

RECURSIVE Split(_, _)
\* strings.Split(text, sep)
Split(text, sep) ==
    IF IndexByte(text, sep) = 0 THEN <<text>>
    ELSE <<SubSeq(text, 1, IndexByte(text, sep) - 1)>>
            \o Split(SubSeq(text, IndexByte(text, sep) + 1, Len(text)), sep)

\* strings.TrimPrefix
TrimPrefix(text, pre) == IF text # << >> /\ Head(text) = pre THEN Tail(text) ELSE text

\* the texts of a connected cell: "HH:MM:SS" and "Xd HH:MM:SS"
Clocks == {<<h, ":", m, ":", sec>> : h \in {"00", "03"}, m \in {"00", "04"}, sec \in {"01", "05"}}
Durations == Clocks \cup {<<d, "d ">> \o c : d \in {"1", "2"}, c \in Clocks}

\* re.FindStringSubmatch for "(:?(\\d+)d )?([0-9:]+)" on such a text: "(:?"
\* opens a group that captures, so m[1] is the days with their "d ", m[2]
\* the digits of the days and m[3] the clock
durationMatch(text) ==
    IF Len(text) >= 3 /\ IsDigits(text[1]) /\ text[2] = "d "
    THEN [m1 |-> <<text[1], "d ">>, m2 |-> <<text[1]>>, m3 |-> SubSeq(text, 3, Len(text))]
    ELSE [m1 |-> << >>, m2 |-> << >>, m3 |-> text]

RECURSIVE clockSeconds(_, _)
\* the loop over the parts of the clock from the last one, multi growing
\* by 60
clockSeconds(parts, multi) ==
    IF parts = << >> THEN 0
    ELSE ParseUint(parts[Len(parts)]).val * multi
            + clockSeconds(SubSeq(parts, 1, Len(parts) - 1), multi * 60)

\* connected as parsePeerList computes it: days from m[1], clock from m[2]
connectedSeconds(text) ==
    LET m == durationMatch(text) IN
        (IF m.m1 # << >> THEN ParseUint(m.m1).val * 86400 ELSE 0)
        + (IF m.m2 # << >> THEN clockSeconds(Split(m.m2, ":"), 1) ELSE 0)

\* Peer.Connected of the row: the tokenizer revision stores connected, the
\* goquery revision computes it and leaves the field at 0
peerConnected(v, text) == IF v = "tokenizer" THEN connectedSeconds(text) ELSE 0

\* the texts of a ratio cell
RatioTexts == {<<"Inf.">>, <<"---">>, <<"1.50">>, <<"0.75">>, <<"1", ",", "50">>, <<"n/a">>, << >>}

\* variant: no case for "Inf."
ratioOfNumber(text, number) ==
    IF text = <<"---">> THEN 0
    ELSE IF ParseFloat(number).err THEN 0 ELSE ParseFloat(number).val

\* the three cases of a ratio, in hundredths: text is what is tested for
\* the two markers, number what is parsed
ratioOf(text, number) ==
    IF text = <<"Inf.">> THEN -100
    ELSE IF text = <<"---">> THEN 0
    ELSE IF ParseFloat(number).err THEN 0 ELSE ParseFloat(number).val

\* the ratio cell of a peer row: text is td.Text(), font td.Find("font").Text().
\* The site writes a number in a font element; a marker may stand without
PeerRatioCells ==
    {[text |-> t, font |-> t] : t \in RatioTexts}
    \cup {[text |-> t, font |-> << >>] : t \in {<<"Inf.">>, <<"---">>}}

\* Peer.Ratio in parsePeerList
peerRatio(v, cell) == IF v = "tokenizer" THEN ratioOf(cell.text, cell.text) ELSE ratioOf(cell.text, cell.font)

\* the ratio cell of a snatch row, with and without its "Torrent: "
SnatchRatioCells == RatioTexts \cup {<<"Torrent: ">> \o t : t \in RatioTexts}

\* Snatch.Ratio in parseSnatches
snatchRatio(b) == ratioOf(TrimPrefix(b, "Torrent: "), TrimPrefix(b, "Torrent: "))

Units == {"KB", "MB", "GB", "TB", "PB", "EB"}

\* size strings: an integer part with or without a '.' between thousands,
\* ',' and two decimals, the unit with or without a space before it
SizeStrings ==
    {int \o <<",", dec>> \o sep \o <<u>> :
        int \in {<<"1">>, <<"1", ".", "234">>}, dec \in {"50", "56"}, sep \in {<< >>, <<" ">>}, u \in Units}

\* a byte count as hundredths of a unit, in one form per count: a count in
\* bytes is cut to whole bytes, and zero is zero bytes
Bytes(h, unit) ==
    IF unit \notin Units THEN [h |-> (h \div 100) * 100, unit |-> "B"]
    ELSE IF h = 0 THEN [h |-> 0, unit |-> "B"]
    ELSE [h |-> h, unit |-> unit]

\* the unit a switch over the suffix finds: none for any other suffix
unitOf(suffix) == IF Len(suffix) = 1 /\ suffix[1] \in Units THEN suffix[1] ELSE "B"

\* the size of a catalog row in parseTorrentEntry: the text before the ','
\* through ParseInt, the two characters after it, then the suffix
catalogSize(rawSize) ==
    LET commaIndex == IndexByte(rawSize, ",") IN
    IF commaIndex = 0 \/ commaIndex = Len(rawSize) THEN [status |-> "panic", bytes |-> Bytes(0, "B")]
    ELSE IF ParseUint(SubSeq(rawSize, 1, commaIndex - 1)).err
            \/ ~IsDigits(rawSize[commaIndex + 1])
         THEN [status |-> "err", bytes |-> Bytes(0, "B")]
         ELSE [status |-> "ok",
               bytes |-> Bytes(ParseUint(SubSeq(rawSize, 1, commaIndex - 1)).val * 100
                                  + DigitRuns[rawSize[commaIndex + 1]].val,
                               unitOf(SubSeq(rawSize, commaIndex + 2, Len(rawSize))))]

\* strings.Replace(temp[0], ".", "", -1) and strings.Replace(temp[0], ",", ".", 1)
decimalPoint(text) ==
    LET noDots == SelectSeq(text, LAMBDA t : t # ".") IN
        [i \in 1..Len(noDots) |-> IF i = IndexByte(noDots, ",") THEN "." ELSE noDots[i]]

\* stringToDatasize
stringToDatasize(str) ==
    LET temp == Split(str, " ") IN
    IF Len(temp) = 1 THEN [status |-> "ok", bytes |-> Bytes(0, "B")]
    ELSE [status |-> "ok", bytes |-> Bytes(ParseFloat(decimalPoint(temp[1])).val, unitOf(temp[2]))]

----------------------------------------------------------------------------
\* The fields of the detail page in parseTorrentDetails (src/Torrent.go)

\* the texts of the size cell: "1,50 GB (1,234 Bytes)", the same with
\* something else than digits in the parentheses, the size without the
\* parentheses, a bare count, and the text of a cell that is not there
SizeCells ==
    {<<"1", ",", "50", " ", "GB", " ", "(", "1", ",", "234", " ", "Bytes)">>,
     <<"1", ",", "50", " ", "GB", " ", "(", "234", " ", "Bytes)">>,
     <<"1", ",", "50", " ", "GB", " ", "(", "n/a", " ", "Bytes)">>,
     <<"1", ",", "50", " ", "GB", " ", "(", ")">>,
     <<"1", ",", "50", " ", "GB">>,
     <<"234">>,
     << >>}

\* strings.Replace(text, old, "", n) for n = 1 and n = -1
Replace(text, old, n) ==
    IF n = 1
    THEN IF IndexByte(text, old) = 0 THEN text
         ELSE SubSeq(text, 1, IndexByte(text, old) - 1)
                \o SubSeq(text, IndexByte(text, old) + 1, Len(text))
    ELSE SelectSeq(text, LAMBDA t : t # old)

\* strconv.ParseUint of a count written with its thousands: runs of digits
\* one after the other
ParseCount(text) ==
    IF text # << >> /\ \A i \in 1..Len(text) : IsDigits(text[i])
    THEN [err |-> FALSE, val |-> RunsVal(text)]
    ELSE [err |-> TRUE, val |-> 0]

\* Size: the third of the parts between spaces, without '(' and ','; an
\* index beyond the parts is a run-time panic
detailSize(cell) ==
    LET temp == Split(cell, " ") IN
    IF Len(temp) < 3 THEN [status |-> "panic", Size |-> 0]
    ELSE LET size == ParseCount(Replace(Replace(temp[3], "(", 1), ",", -1))
         IN [status |-> "ok", Size |-> IF size.err THEN 0 ELSE size.val]

\* the texts of the date cell: the layout "2006-01-02 15:04:05", a date of
\* another layout, a date without its time, and no text
DateCells ==
    {<<"2018", "-", "03", "-", "04", " ", "05", ":", "01", ":", "00">>,
     <<"2018", "-", "01", "-", "05", " ", "03", ":", "04", ":", "05">>,
     <<"04", ".", "03", ".", "2018", " ", "05", ":", "01">>,
     <<"2018", "-", "03", "-", "04">>,
     << >>}

\* time.Unix(0, 0) as year, month, day, hour, minute, second
Epoch == <<"1970", "01", "01", "00", "00", "00">>

\* time.Parse("2006-01-02 15:04:05", text): the six numbers when the text
\* has the layout
timeParse(text) ==
    IF /\ Len(text) = 11
       /\ <<text[2], text[4], text[6], text[8], text[10]>> = <<"-", "-", " ", ":", ":">>
       /\ text[1] = "2018"
       /\ \A i \in {3, 5, 7, 9, 11} : IsDigits(text[i]) /\ DigitRuns[text[i]].len = 2
    THEN [err |-> FALSE, val |-> <<text[1], text[3], text[5], text[7], text[9], text[11]>>]
    ELSE [err |-> TRUE, val |-> Epoch]

\* Added
detailAdded(cell) == IF timeParse(cell).err THEN Epoch ELSE timeParse(cell).val

\* Size and Added of the record; a panic leaves no record
detailFields(size, date) ==
    IF detailSize(size).status = "panic" THEN [status |-> "panic", Size |-> 0, Added |-> Epoch]
    ELSE [status |-> "ok", Size |-> detailSize(size).Size, Added |-> detailAdded(date)]

\* the table of a cell: its header row and its rows, << >> when the cell
\* has no table
FileTables == {<<"head">>, <<"head", "f1">>, <<"head", "f1", "f2">>}
PeerTables == {<< >>, <<"head">>, <<"head", "p1">>, <<"head", "p1", "p2">>}

\* parseFileList and the loop of parsePeerList: one element for each row
\* after the first; parseFileList returns no error
rowList(table) == IF table = << >> THEN << >> ELSE Tail(table)

\* the texts of the "Num Files" cell
NumFilesCells == {<<"2", " ", "Dateien">>, <<"1", ",", "234", " ", "Dateien">>, << >>}

\* the text of the peer cell when the roster is not shown
PeerSummaries == {<<"2", " Seeder, ", "1", " Leecher = ", "3", " Peer(s) gesamt">>, <<"n/a">>}

\* variant: the count stays the one of the "Num Files" cell
fileCountOfCell(files, nfiles, flist) == IF ParseCount(nfiles).err THEN 0 ELSE ParseCount(nfiles).val

\* FileCount: the count of the cell, replaced by the length of the list when
\* the files are asked for
fileCount(files, nfiles, flist) ==
    IF files THEN Len(flist)
    ELSE IF ParseCount(nfiles).err THEN 0 ELSE ParseCount(nfiles).val

\* the counts and lists of the record
detailCounts(files, peers, nfiles, ftable, stable, ptable, summary) ==
    LET temp == Split(nfiles, " ")
        parseSeeders == stable # << >>
        parseLeechers == ptable # << >>
        seeder == rowList(stable)
        leecher == rowList(ptable)
        matched == Len(summary) = 6
    IN [FileCount |-> fileCount(files, Replace(temp[1], ",", -1), rowList(ftable)),
        Files |-> IF files THEN rowList(ftable) ELSE << >>,
        SeederCount |-> IF peers THEN Len(seeder)
                        ELSE IF matched THEN ParseUint(<<summary[1]>>).val ELSE 0,
        LeecherCount |-> IF peers THEN Len(leecher)
                         ELSE IF matched THEN ParseUint(<<summary[3]>>).val ELSE 0,
        Peers |-> IF ~peers THEN << >>
                  ELSE IF parseSeeders /\ parseLeechers THEN seeder \o leecher
                  ELSE IF parseSeeders THEN seeder
                  ELSE IF parseLeechers THEN leecher
                  ELSE << >>]

----------------------------------------------------------------------------
\* TorrentUpload.Upload (src/Torrent.go, and the revision that matches the
\* page text in src/unnamed/part_000)

\* the page takeupload.php answers with: its status, whether it carries
\* "TorrentUpload-Upload fehlgeschlagen!", and the id in its link to
\* details.php, "" when it has no such link
UploadPages == [StatusCode : {200, 404}, failed : BOOLEAN, link : {"", "1", "234"}]

\* what is left of resp.Body for goquery.NewDocumentFromResponse once
\* ioutil.ReadAll has read it to its end: the document of an empty text
drained(page) == [StatusCode |-> page.StatusCode, failed |-> FALSE, link |-> ""]

\* the end of Upload in src/Torrent.go: the document is built after the
\* body was read, the id is taken from the text read before, and the last
\* statement returns an error
uploadDocument(page) ==
    LET doc == drained(page) IN
    IF doc.failed THEN [err |-> "upload failed: reason", Id |-> 0]
    ELSE [err |-> "upload failed",
          Id |-> IF doc.link # "" /\ page.link # "" THEN ParseUint(<<page.link>>).val ELSE 0]

\* the end of Upload in src/unnamed/part_000, on the text of the page
uploadText(page) ==
    IF page.failed THEN [err |-> "upload failed: reason", Id |-> 0]
    ELSE [err |-> "nil", Id |-> IF page.link # "" THEN ParseUint(<<page.link>>).val ELSE 0]

\* Upload: lg is the error of assureLogin, out the error of c.post, whose
\* response is used unchecked
Upload(v, lg, out, page) ==
    IF lg # "nil" THEN [status |-> "ok", err |-> lg, Id |-> 0]
    ELSE IF out # "nil" THEN [status |-> "panic", err |-> "nil", Id |-> 0]
    ELSE IF page.StatusCode = 404 THEN [status |-> "ok", err |-> "upload failed: 404", Id |-> 0]
    ELSE LET end == IF v = "goquery" THEN uploadDocument(page) ELSE uploadText(page)
         IN [status |-> "ok", err |-> end.err, Id |-> end.Id]

----------------------------------------------------------------------------
\* parseTorrentList on one page with a receiver that takes every record

\* the pages of up to three rows: two records, a row that makes
\* parseTorrentEntry return an error, and a row whose size cell has no ','
BatchRows == {[kind |-> "ok", key |-> 1, val |-> 0], [kind |-> "ok", key |-> 2, val |-> 0], BadRow, NoCommaRow}
Batches == UNION {[1..n -> BatchRows] : n \in 0..3}

RECURSIVE parseTorrentList(_, _)
\* the records parseTorrentList sends for the rows, one after the other, and
\* whether it ends in a panic
parseTorrentList(rows, v) ==
    LET r == RunParser(rows, v) IN
    IF r.st = "send"
    THEN LET rest == parseTorrentList(Tail(r.rows), v)
         IN [sent |-> <<EntryOf(Head(r.rows))>> \o rest.sent, panicked |-> rest.panicked]
    ELSE [sent |-> << >>, panicked |-> r.panicking]

----------------------------------------------------------------------------
\* The decoders and converters applied to their inputs

Calls ==
    {"ShoutboxRead", "ShoutboxWrite", "Connected", "PeerRatio", "SnatchRatio", "Size",
     "DetailFields", "DetailCounts", "Upload",
     "RowBatch", "Strip"}

\* the inputs of a call: the payload the site answered with, or the text of
\* the cell; uid is c.cookies.Uid and message the text submitted
Inputs(c) ==
    CASE c = "ShoutboxRead" -> [rev : Revs, payload : Payloads]
      [] c = "ShoutboxWrite" -> [payload : Payloads, uid : {1, 2}, message : Bodies]
      [] c = "Connected" -> [rev : Impls, text : Durations]
      [] c = "PeerRatio" -> [rev : Impls, cell : PeerRatioCells]
      [] c = "SnatchRatio" -> [cell : SnatchRatioCells]
      [] c = "Size" -> [str : SizeStrings]
      [] c = "DetailFields" -> [size : SizeCells, date : DateCells]
      [] c = "Upload" -> [rev : Impls, login : {"nil", "loginerr"}, post : {"nil", "neterr"},
                          page : UploadPages]
      [] c = "RowBatch" -> [rev : Impls, rows : Batches]
      [] c = "Strip" -> [msg : StripTexts]
      [] OTHER -> [files : BOOLEAN, peers : BOOLEAN, nfiles : NumFilesCells, ftable : FileTables,
                   stable : PeerTables, ptable : PeerTables, summary : PeerSummaries]

ParseInit ==
    /\ Idle
    /\ Unloaded
    /\ call \in Calls
    /\ args \in Inputs(call)
    /\ ret = << >>

\* what a decoder or converter leaves as it is
parseFrame == <<op, impl, snatches, cookies, logins, loginErr, ownReqs, err, call, args,
                shoutboxRegexp, emojis, strip>>

\* ShoutboxRead from the payload to its return
DecodeFeed ==
    /\ pc = "idle"
    /\ call = "ShoutboxRead"
    /\ ret' = shoutboxRead(args.rev, args.payload)
    /\ pc' = "returned"
    /\ UNCHANGED parseFrame
    /\ UNCHANGED crawlVars

\* ShoutboxWrite from the response to its return
ConfirmWrite ==
    /\ pc = "idle"
    /\ call = "ShoutboxWrite"
    /\ ret' = shoutboxWrite(args.payload, args.uid, args.message)
    /\ pc' = "returned"
    /\ UNCHANGED parseFrame
    /\ UNCHANGED crawlVars

\* the connected cell of a peer row in parsePeerList
ParseConnected ==
    /\ pc = "idle"
    /\ call = "Connected"
    /\ ret' = [Connected |-> peerConnected(args.rev, args.text)]
    /\ pc' = "returned"
    /\ UNCHANGED parseFrame
    /\ UNCHANGED crawlVars

\* the ratio cell of a peer row in parsePeerList
ParsePeerRatio ==
    /\ pc = "idle"
    /\ call = "PeerRatio"
    /\ ret' = [Ratio |-> peerRatio(args.rev, args.cell)]
    /\ pc' = "returned"
    /\ UNCHANGED parseFrame
    /\ UNCHANGED crawlVars

\* the ratio cell of a snatch row in parseSnatches
ParseSnatchRatio ==
    /\ pc = "idle"
    /\ call = "SnatchRatio"
    /\ ret' = [Ratio |-> snatchRatio(args.cell)]
    /\ pc' = "returned"
    /\ UNCHANGED parseFrame
    /\ UNCHANGED crawlVars

\* one size string through the conversion of the catalog row and through
\* stringToDatasize
ConvertSize ==
    /\ pc = "idle"
    /\ call = "Size"
    /\ ret' = [catalog |-> catalogSize(args.str), general |-> stringToDatasize(args.str)]
    /\ pc' = "returned"
    /\ UNCHANGED parseFrame
    /\ UNCHANGED crawlVars

\* the size and date rows of the detail page in parseTorrentDetails
ParseDetailFields ==
    /\ pc = "idle"
    /\ call = "DetailFields"
    /\ ret' = detailFields(args.size, args.date)
    /\ pc' = "returned"
    /\ UNCHANGED parseFrame
    /\ UNCHANGED crawlVars

\* the file and peer rows of the detail page in parseTorrentDetails
ParseDetailCounts ==
    /\ pc = "idle"
    /\ call = "DetailCounts"
    /\ ret' = detailCounts(args.files, args.peers, args.nfiles, args.ftable,
                           args.stable, args.ptable, args.summary)
    /\ pc' = "returned"
    /\ UNCHANGED parseFrame
    /\ UNCHANGED crawlVars

\* Upload from the login to its return
UploadCall ==
    /\ pc = "idle"
    /\ call = "Upload"
    /\ ret' = Upload(args.rev, args.login, args.post, args.page)
    /\ pc' = "returned"
    /\ UNCHANGED parseFrame
    /\ UNCHANGED crawlVars

\* parseTorrentList over the rows of one page
ParseBatch ==
    /\ pc = "idle"
    /\ call = "RowBatch"
    /\ ret' = parseTorrentList(args.rows, args.rev)
    /\ pc' = "returned"
    /\ UNCHANGED parseFrame
    /\ UNCHANGED crawlVars

\* ShoutboxStrip on one message
StripCall ==
    /\ pc = "idle"
    /\ call = "Strip"
    /\ ret' = [stripped |-> ShoutboxStrip(args.msg)]
    /\ pc' = "returned"
    /\ UNCHANGED parseFrame
    /\ UNCHANGED crawlVars

ParseNext ==
    \/ DecodeFeed
    \/ ConfirmWrite
    \/ ParseConnected
    \/ ParsePeerRatio
    \/ ParseSnatchRatio
    \/ ConvertSize
    \/ ParseDetailFields
    \/ ParseDetailCounts
    \/ UploadCall
    \/ ParseBatch
    \/ StripCall

ParseSpec == ParseInit /\ [][ParseNext]_vars

----------------------------------------------------------------------------
\* The tables ShoutboxStrip and emojify fill on their first call
\* (src/Shoutbox.go), with two goroutines calling ShoutboxStrip

\* the keys shoutboxRegexpInit sets, of which the model keeps the first, one
\* in the middle and the last; ShoutboxStrip reads them in the same order
RegexpKeys == <<"center", "emoji", "hxxp">>
\* the names emojiInit sets
EmojiOrder == <<"smile1.gif", "thx.gif", "jippie.gif">>

\* the process has ended: a nil expression was used, or the runtime found
\* two goroutines in one map
Stopped == \E c \in Callers : strip[c].pc \in {"panic", "fatal"}

\* what a step of ShoutboxStrip leaves as it is
stripFrame == <<op, impl, snatches, pc, cookies, logins, loginErr, ownReqs, err, call, args, ret>>

\* a goroutine calls ShoutboxStrip
StripEnter(c) ==
    /\ ~Stopped
    /\ strip[c].pc = "idle"
    /\ strip' = [strip EXCEPT ![c] = [pc |-> "check", k |-> 1]]
    /\ UNCHANGED <<shoutboxRegexp, emojis>>
    /\ UNCHANGED stripFrame
    /\ UNCHANGED crawlVars

\* if len(shoutboxRegexp) == 0 { shoutboxRegexpInit() }
StripCheck(c) ==
    /\ ~Stopped
    /\ strip[c].pc = "check"
    /\ strip' = [strip EXCEPT ![c].pc = IF Cardinality(shoutboxRegexp.keys) = 0 THEN "make" ELSE "use"]
    /\ UNCHANGED <<shoutboxRegexp, emojis>>
    /\ UNCHANGED stripFrame
    /\ UNCHANGED crawlVars

\* shoutboxRegexp = make(map[string]*regexp.Regexp)
RegexpMake(c) ==
    /\ ~Stopped
    /\ strip[c].pc = "make"
    /\ shoutboxRegexp' = [keys |-> {}, makes |-> shoutboxRegexp.makes + 1]
    /\ strip' = [strip EXCEPT ![c] = [pc |-> "fill", k |-> 1]]
    /\ UNCHANGED emojis
    /\ UNCHANGED stripFrame
    /\ UNCHANGED crawlVars

\* shoutboxRegexp[key], _ = regexp.Compile(...), one key after the other
RegexpFill(c) ==
    /\ ~Stopped
    /\ strip[c].pc = "fill"
    /\ shoutboxRegexp' = [shoutboxRegexp EXCEPT !.keys = @ \cup {RegexpKeys[strip[c].k]}]
    /\ strip' = [strip EXCEPT ![c] = IF strip[c].k < Len(RegexpKeys)
                                      THEN [pc |-> "fill", k |-> strip[c].k + 1]
                                      ELSE [pc |-> "use", k |-> 1]]
    /\ UNCHANGED emojis
    /\ UNCHANGED stripFrame
    /\ UNCHANGED crawlVars

\* shoutboxRegexp[key].ReplaceAllString(...), one key after the other: a key
\* that is not in the map gives a nil expression, whose use is a panic
StripUse(c) ==
    /\ ~Stopped
    /\ strip[c].pc = "use"
    /\ strip' = [strip EXCEPT ![c] =
                    IF RegexpKeys[strip[c].k] \notin shoutboxRegexp.keys THEN [pc |-> "panic", k |-> strip[c].k]
                    ELSE IF strip[c].k < Len(RegexpKeys) THEN [pc |-> "use", k |-> strip[c].k + 1]
                    ELSE [pc |-> "echeck", k |-> 1]]
    /\ UNCHANGED <<shoutboxRegexp, emojis>>
    /\ UNCHANGED stripFrame
    /\ UNCHANGED crawlVars

\* emojiInit: if len(emojis) > 0 { return }
EmojiCheck(c) ==
    /\ ~Stopped
    /\ strip[c].pc = "echeck"
    /\ strip' = [strip EXCEPT ![c].pc = IF Cardinality(emojis.keys) > 0 THEN "range" ELSE "emake"]
    /\ UNCHANGED <<shoutboxRegexp, emojis>>
    /\ UNCHANGED stripFrame
    /\ UNCHANGED crawlVars

\* emojis = make(map[string]rune)
EmojiMake(c) ==
    /\ ~Stopped
    /\ strip[c].pc = "emake"
    /\ emojis' = [keys |-> {}, makes |-> emojis.makes + 1]
    /\ strip' = [strip EXCEPT ![c] = [pc |-> "efill", k |-> 1]]
    /\ UNCHANGED shoutboxRegexp
    /\ UNCHANGED stripFrame
    /\ UNCHANGED crawlVars

\* emojis[name] = code point, one name after the other
EmojiFill(c) ==
    /\ ~Stopped
    /\ strip[c].pc = "efill"
    /\ emojis' = [emojis EXCEPT !.keys = @ \cup {EmojiOrder[strip[c].k]}]
    /\ strip' = [strip EXCEPT ![c] = IF strip[c].k < Len(EmojiOrder)
                                      THEN [pc |-> "efill", k |-> strip[c].k + 1]
                                      ELSE [pc |-> "range", k |-> 1]]
    /\ UNCHANGED shoutboxRegexp
    /\ UNCHANGED stripFrame
    /\ UNCHANGED crawlVars

\* for image, emoji := range emojis: the names the loop finds; k counts
\* them
EmojiRange(c) ==
    /\ ~Stopped
    /\ strip[c].pc = "range"
    /\ strip' = [strip EXCEPT ![c] = [pc |-> "done", k |-> Cardinality(emojis.keys)]]
    /\ UNCHANGED <<shoutboxRegexp, emojis>>
    /\ UNCHANGED stripFrame
    /\ UNCHANGED crawlVars

\* two goroutines in one map at a time, one of them writing: nothing orders
\* the two, and besides either order the runtime may find them together
\* and end the process (concurrent map writes, concurrent map read and map
\* write, concurrent map iteration and map write)
Race(c, d) ==
    /\ ~Stopped
    /\ c # d
    /\ \/ strip[d].pc = "fill" /\ strip[c].pc \in {"fill", "use"}
       \/ strip[d].pc = "efill" /\ strip[c].pc \in {"efill", "range"}
    /\ strip' = [x \in Callers |-> [pc |-> "fatal", k |-> strip[x].k]]
    /\ UNCHANGED <<shoutboxRegexp, emojis>>
    /\ UNCHANGED stripFrame
    /\ UNCHANGED crawlVars

LazyNext ==
    \/ \E c \in Callers : StripEnter(c)
    \/ \E c \in Callers : StripCheck(c)
    \/ \E c \in Callers : RegexpMake(c)
    \/ \E c \in Callers : RegexpFill(c)
    \/ \E c \in Callers : StripUse(c)
    \/ \E c \in Callers : EmojiCheck(c)
    \/ \E c \in Callers : EmojiMake(c)
    \/ \E c \in Callers : EmojiFill(c)
    \/ \E c \in Callers : EmojiRange(c)
    \/ \E c, d \in Callers : Race(c, d)

LazySpec == Init /\ [][LazyNext]_vars

----------------------------------------------------------------------------
\* Properties

ListKeys == {list[i].key : i \in 1..Len(list)}
CanonSet == {[key |-> canon[k].key, val |-> canon[k].val] : k \in DOMAIN canon}
RECURSIVE SumOver(_, _)
SumOver(f, S) == IF S = {} THEN 0 ELSE LET x == CHOOSE y \in S : TRUE IN f[x] + SumOver(f, S \ {x})
StartedTasks == {t \in Tasks : task[t].st # "none"}
\* Search has left its merging loop and returned its list
SearchMerged == op = "Search" /\ pc = "returned" /\ err = "nil"
\* records of at least two pages were merged
TwoPagesMerged == \E k, l \in DOMAIN canon : canon[k].from # canon[l].from
\* no key was sent with two different contents
OneContentPerKey == \A a, b \in emitted : a.key = b.key => a = b
\* the largest page parameter among all anchors of a page
MaxAnchor(b) == Max(UNION {Range(b.anchors[i]) : i \in 1..Len(b.anchors)})

\* C1: the list Search returns holds no two entries with the same Id
C1_NoDuplicateIds ==
    (op = "Search" /\ pc = "returned") =>
        \A i, j \in 1..Len(list) : i # j => list[i].key # list[j].key

C1_Witness ==
    /\ SearchMerged
    /\ maxpage >= 1
    /\ \E a, b \in emitted : a.key = b.key /\ a # b
    /\ Len(list) = 2

\* C2: with page count maxpage, Search runs exactly maxpage + 1 goroutines
\* and returns only after exactly maxpage + 1 completion signals
C2_CountsCompletions ==
    (op = "Search" /\ pc \in {"merge", "returned"} /\ err = "nil") =>
        /\ Cardinality(StartedTasks) = maxpage + 1
        /\ pc = "returned" => (p = maxpage + 1 /\ SumOver(dones, Tasks) = maxpage + 1)

C2_Witness ==
    /\ SearchMerged
    /\ maxpage >= 1
    /\ \E t \in 1..MaxPage : task[t].fetch = "err"
    /\ emitted = {}
    /\ SumOver(dones, Tasks) = maxpage + 1

\* C3: when Search returns, no goroutine still has a record to send, and
\* every Id a goroutine sent is in the list
C3_NothingLost ==
    SearchMerged =>
        /\ \A t \in Tasks : task[t].st \notin {"fetch", "send", "done"}
        /\ \A e \in emitted : e.key \in ListKeys

C3_Witness ==
    /\ SearchMerged
    /\ TwoPagesMerged
    /\ Cardinality(emitted) = 3

\* C4 (as claimed): the page count Search takes is the largest page
\* parameter among the anchors of the first page
C4_PageCountIsMaxAnchor ==
    [][(op = "Search" /\ pc = "paginate" /\ pc' \in {"spawn", "merge"})
            => maxpage' = MaxAnchor(body)]_vars

\* C5: a goroutine whose request failed sends no record and one completion
\* signal, and Search returns the records of the other pages and no error
C5_FailedPageIsEmpty ==
    op = "Search" =>
        \A t \in Tasks : task[t].fetch = "err" =>
            /\ task[t].rows = << >>
            /\ \/ task[t].st = "done" /\ dones[t] = 0
               \/ task[t].st = "exit" /\ dones[t] = 1
            /\ pc = "returned" => (err = "nil" /\ dones[t] = 1 /\ ListKeys = {e.key : e \in emitted})

C5_Witness ==
    /\ SearchMerged
    /\ \E t \in 1..MaxPage : task[t].fetch = "err"
    /\ \E t \in 1..MaxPage : task[t].fetch = "ok"
    /\ ListKeys = {1, 2}

\* C6 (as claimed): every call of Search that has fetched its first page
\* returns
C6_SearchReturns == (op = "Search" /\ pc = "paginate") ~> (pc = "returned")

\* C7 (as claimed): a page whose extraction fails in mid-parse aborts
\* neither the other goroutines nor the crawl
C7_PanicDoesNotAbort == (\E t \in Tasks : task[t].panicking) => ~crashed

\* C8 (as claimed): the merged result is the same for every order in which
\* the records arrive, so it is the one the page-by-page order gives
C8_OrderIndependent == SearchMerged => Range(list) = CanonSet

\* C8 (amended): the Ids of the merged result and its length do not depend
\* on the order, every entry is a record some page sent, and the entries do
\* not depend on the order when no Id was sent with two different contents
C8_SameIdsAnyOrder ==
    SearchMerged =>
        /\ \A t \in Tasks : task[t].rows = << >>
        /\ ListKeys = DOMAIN canon
        /\ Len(list) = Cardinality(DOMAIN canon)
        /\ Range(list) \subseteq emitted
        /\ OneContentPerKey => Range(list) = CanonSet

C8_Witness ==
    /\ SearchMerged
    /\ TwoPagesMerged
    /\ OneContentPerKey
    /\ Cardinality(emitted) = 2

\* C9: in a crawl the cookies and the number of login checks change only in
\* the step that calls the operation, and a page is requested only after
\* the one login check has succeeded
C9_TasksKeepSession ==
    /\ [][pc # "idle" => (cookies' = cookies /\ logins' = logins)]_vars
    /\ []((op \in CrawlOps /\ \E t \in Tasks : fetched[t] > 0) => (logins = 1 /\ loginErr = "nil"))

C9_Witness ==
    /\ op \in CrawlOps
    /\ cookies = FreshCookies
    /\ \E t \in 1..MaxPage : fetched[t] > 0 /\ task[t].fetch = "err"

\* C10 (as claimed): an operation whose login check fails with invalid
\* credentials returns that error and issues no request of its own
C10_LoginErrorIsFatal ==
    (pc = "returned" /\ loginErr = "invalid credentials") =>
        (err = "invalid credentials" /\ ownReqs = 0)

\* C11: when the detail page answers 404, Details returns the error
\* 'torrent not found' (and so no entry) after its one request, and neither
\* requests a history page nor starts a history goroutine
C11_NotFoundEndsDetails ==
    /\ [][(op = "Details" /\ pc = "request" /\ err' = "torrent not found") => pc' = "returned"]_vars
    /\ []((op = "Details" /\ err = "torrent not found") =>
            /\ pc = "returned"
            /\ ownReqs = 1
            /\ \A t \in Tasks : fetched[t] = 0 /\ task[t] = NoTask
            /\ list = << >>)
    /\ []((op = "Details" /\ pc = "snatchreq") => err = "nil")

C11_Witness == op = "Details" /\ snatches /\ pc = "returned" /\ err = "torrent not found"

\* C12: the Snatches list Details returns holds no two records with the
\* same peer name
C12_NoDuplicateNames ==
    (op = "Details" /\ pc = "returned") =>
        \A i, j \in 1..Len(list) : i # j => list[i].key # list[j].key

C12_Witness ==
    /\ op = "Details"
    /\ pc = "returned"
    /\ err = "nil"
    /\ maxpage = MaxPage
    /\ \E k \in DOMAIN canon : canon[k].from > 0
    /\ \E a, b \in emitted : a.key = b.key /\ a # b
    /\ Len(list) = 2

\* the payload as ShoutboxRead came to decode it, and what it decoded to
FeedBody == readBody(args.rev, args.payload)
FeedReturned == call = "ShoutboxRead" /\ pc = "returned"
FeedDecoded == FeedReturned /\ FeedBody.len > 1 /\ Unmarshal(FeedBody).err = "nil"
\* a batch of one control tuple and then text-type message tuples only
ControlThenTexts ==
    /\ FeedDecoded
    /\ Len(FeedBody.tuples) >= 1
    /\ \A i \in 2..Len(FeedBody.tuples) : FeedBody.tuples[i].id # "" /\ FeedBody.tuples[i].type = ""

\* C13 (as claimed): for a batch of one control tuple and k text-type message
\* tuples ShoutboxRead returns k records, none of them the control event
C13_EventExcluded ==
    ControlThenTexts =>
        /\ Len(ret.messages) = Len(FeedBody.tuples) - 1
        /\ \A i \in 1..Len(ret.messages) : ~ret.messages[i].event

\* C13 (amended): for such a batch ShoutboxRead returns k + 1 records: the k
\* chat messages and, as the last record, the one that carries the control
\* event
C13_EventReturnedLast ==
    ControlThenTexts =>
        /\ Len(ret.messages) = Len(FeedBody.tuples)
        /\ \A i \in 1..Len(ret.messages) : ret.messages[i].event <=> i = Len(ret.messages)
        /\ ret.err = "nil"

C13_Witness == ControlThenTexts /\ Len(FeedBody.tuples) = 3 /\ Len(ret.messages) = 3

\* C14: the chat messages ShoutboxRead returns are in the reverse of their
\* wire order, each the stripped body of its tuple
C14_ReversedWireOrder ==
    FeedDecoded =>
        /\ \A i, j \in 1..Len(ret.messages) : i < j => ret.messages[i].wire > ret.messages[j].wire
        /\ \A i \in 1..Len(ret.messages) :
              ~ret.messages[i].event =>
                  ret.messages[i].Message = ShoutboxStrip(FeedBody.tuples[ret.messages[i].wire].msg)

C14_Witness ==
    /\ FeedDecoded
    /\ Len(ret.messages) = 3
    /\ ~ret.messages[1].event /\ ~ret.messages[2].event
    /\ ret.messages[1].wire = 3 /\ ret.messages[2].wire = 2
    /\ ret.messages[1].UserId # ret.messages[2].UserId

C16_ServerloadIffMarker ==
    (FeedReturned /\ FeedBody.len > 1 /\ Unmarshal(FeedBody).err # "nil") =>
        /\ ret.err = "serverload" <=> args.payload.marker
        /\ ~args.payload.marker => ret.err = "decode"

\* whether one tuple of the decoded response has a non-empty leading field,
\* the session's Uid as author id and the submitted text as raw body
WriteDecoded == Unmarshal(sanitizeJSON(args.payload))
WriteEchoed ==
    \E i \in 1..Len(WriteDecoded.jsonMsg) :
        /\ WriteDecoded.jsonMsg[i].id # ""
        /\ ParseInt(WriteDecoded.jsonMsg[i].uid) = args.uid
        /\ WriteDecoded.jsonMsg[i].msg = args.message

\* C17: ShoutboxWrite returns true exactly when the decoded response has
\* such a tuple, and false with a nil error when it decodes and has none
C17_TrueIffEchoed ==
    (call = "ShoutboxWrite" /\ pc = "returned") =>
        /\ ret.ok <=> (WriteDecoded.err = "nil" /\ WriteEchoed)
        /\ (WriteDecoded.err = "nil" /\ ~WriteEchoed) => (~ret.ok /\ ret.err = "nil")

C17_Witness ==
    /\ call = "ShoutboxWrite" /\ pc = "returned"
    /\ ret.ok
    /\ Len(WriteDecoded.jsonMsg) = 3
    /\ ParseInt(WriteDecoded.jsonMsg[1].uid) = args.uid /\ WriteDecoded.jsonMsg[1].msg # args.message
    /\ WriteDecoded.jsonMsg[2].id = ""
    /\ WriteDecoded.jsonMsg[3].msg = args.message

\* the seconds a duration text stands for: its clock is its last five pieces
DurationDays(text) == IF Len(text) = 7 THEN DigitRuns[text[1]].val ELSE 0
DurationSeconds(text) ==
    DurationDays(text) * 86400 + DigitRuns[text[Len(text) - 4]].val * 3600
        + DigitRuns[text[Len(text) - 2]].val * 60 + DigitRuns[text[Len(text)]].val

\* C18 (as claimed): Peer.Connected is days*86400 + hours*3600 + minutes*60 +
\* seconds, absent days counting as zero
C18_ConnectedIsSeconds ==
    (call = "Connected" /\ pc = "returned") => ret.Connected = DurationSeconds(args.text)

\* the three-way reading of a ratio text, in hundredths
RatioClaimed(t) ==
    CASE t = <<"Inf.">> -> -100
      [] t = <<"---">> -> 0
      [] t = <<"1.50">> -> 150
      [] t = <<"0.75">> -> 75
      [] OTHER -> 0

C20_SameByteCount ==
    (call = "Size" /\ pc = "returned") =>
        (ret.catalog.status = "ok" /\ ret.catalog.bytes = ret.general.bytes)
\* the size cells with a byte count in the parentheses, and the date cells
\* of the layout
WellFormedSizes == {c \in SizeCells : Len(c) >= 10 /\ c[Len(c) - 2] = "234"}
WellFormedDates == {c \in DateCells : Len(c) = 11 /\ c[2] = "-"}

\* C21: in parseTorrentDetails a malformed or missing size cell gives Size 0
\* and a malformed or missing date cell gives the epoch, and neither stops
\* the record from being returned
C21_FieldsDegrade ==
    (pc = "returned" /\ call = "DetailFields") =>
        /\ ret.status = "ok"
        /\ args.size \notin WellFormedSizes => ret.Size = 0
        /\ args.date \notin WellFormedDates => ret.Added = Epoch

\* C29: in the entry parseTorrentDetails returns, FileCount is the length of
\* Files when the files are asked for, and SeederCount + LeecherCount is the
\* length of Peers when the peers are asked for
C29_CountsMatchLists ==
    (pc = "returned" /\ call = "DetailCounts") =>
        /\ args.files => ret.FileCount = Len(ret.Files)
        /\ args.peers => ret.SeederCount + ret.LeecherCount = Len(ret.Peers)

\* both lists asked for, the cell naming another count than the table has
\* rows, and both rosters with rows
C29_Witness ==
    /\ pc = "returned"
    /\ call = "DetailCounts"
    /\ args.files /\ args.peers
    /\ args.nfiles = <<"2", " ", "Dateien">>
    /\ Len(ret.Files) = 1
    /\ ret.SeederCount = 2
    /\ ret.LeecherCount = 1
    /\ Len(ret.Peers) = 3

\* C30: Upload returns a nil error, with Id the id of the new item, exactly
\* when the response has a status other than 404, carries no upload-failed
\* marker and links to the details page; otherwise it returns an error
C30_NilIffAccepted ==
    (pc = "returned" /\ call = "Upload") =>
        /\ ret.status = "ok"
        /\ (ret.err = "nil")
             <=> /\ args.login = "nil" /\ args.post = "nil"
                 /\ args.page.StatusCode # 404
                 /\ ~args.page.failed
                 /\ args.page.link # ""
        /\ ret.err = "nil" => ret.Id = ParseUint(<<args.page.link>>).val

\* C22: of the rows of a catalog page, a row that does not have the
\* expected structure is dropped on its own: the sink gets no record for it
\* and gets the records of the rows before and after it, in their order
C22_BadRowDroppedAlone ==
    (pc = "returned" /\ call = "RowBatch") =>
        LET good == SelectSeq(args.rows, LAMBDA r : r.kind = "ok")
        IN ret.sent = [i \in 1..Len(good) |-> EntryOf(good[i])]

\* C27: when Search or Details has returned, every goroutine it started has
\* delivered its completion signal, so none is blocked at a send
C27_NoTaskLeftBlocked ==
    pc = "returned" => \A t \in StartedTasks : dones[t] = 1 /\ task[t].st \notin {"fetch", "send", "done"}

\* C28: the goroutines spawned for page count maxpage request the page
\* parameters 1..maxpage, each once: no page is requested twice by the
\* spawned goroutines and, once the crawl has returned, none was skipped
C28_EachPageOnce ==
    /\ \A pg \in 1..MaxPage : fetched[pg] <= 1
    /\ \A t, u \in StartedTasks : t # u => task[t].page # task[u].page
    /\ (pc = "returned" /\ err = "nil" /\ task[0].st # "none") =>
            \A pg \in 1..MaxPage : fetched[pg] = IF pg <= maxpage THEN 1 ELSE 0

\* a crawl of both operations' kind with the largest page count has returned
C28_Witness ==
    /\ pc = "returned"
    /\ err = "nil"
    /\ maxpage = MaxPage
    /\ \A pg \in 1..MaxPage : fetched[pg] = 1 /\ task[pg].page = pg

\* the wrapper tags
WrapperTags == {Wrappers[n].open : n \in 1..Len(Wrappers)} \cup {Wrappers[n].close : n \in 1..Len(Wrappers)}

\* C23: for a message whose wrapper tags are matched, with one wrapped span
\* or several, the text ShoutboxStrip returns holds no center, bold, italic
\* or underline tag and is what it returns for the message without them
C23_WrappersStripped ==
    (pc = "returned" /\ call = "Strip") =>
        /\ \A i \in 1..Len(ret.stripped) : ret.stripped[i] \notin WrapperTags
        /\ ret.stripped = ShoutboxStrip(SelectSeq(args.msg, LAMBDA t : t \notin WrapperTags))

RECURSIVE Resolved(_)
\* a message with every emoji image resolved as claimed: the code point of
\* the table for a name of the table, "emoji:" and the name for another
Resolved(text) ==
    IF text = << >> THEN << >>
    ELSE IF Head(text) # ImgOpen THEN <<Head(text)>> \o Resolved(Tail(text))
    ELSE LET j == CHOOSE x \in 2..Len(text) : text[x] = ImgClose /\ \A y \in 2..(x - 1) : text[y] # ImgClose
             name == SubSeq(text, 2, j - 1)
         IN (IF Len(name) = 1 /\ name[1] \in DOMAIN EmojiTable
             THEN <<EmojiTable[name[1]]>> ELSE <<"emoji:">> \o name)
            \o Resolved(SubSeq(text, j + 1, Len(text)))

\* C24: ShoutboxStrip turns an emoji image into the one code point the
\* table has for its file name, and into "emoji:" and the name when the
\* table does not have the name
C24_EmojiResolved ==
    (pc = "returned" /\ call = "Strip") =>
        ret.stripped = UnescapeString(replaceBreaks(Resolved(stripWrappers(args.msg, 1))))

\* C25: ShoutboxStrip replaces every "<br>" and "<br/>" with a newline and
\* every "&nbsp;" with a space
C25_BreaksBecomeNewlines ==
    (pc = "returned" /\ call = "Strip") =>
        ret.stripped = ShoutboxStrip([i \in 1..Len(args.msg) |->
                            CASE args.msg[i] \in {"<br>", "<br/>"} -> "\n"
                              [] args.msg[i] = "&nbsp;" -> " "
                              [] OTHER -> args.msg[i]])

\* C26: the two tables are built once and never seen half-built: whatever
\* the interleaving of the first calls, a call that reads a table finds all
\* its entries, no table is made a second time, and no call ends the
\* process
C26_TablesBuiltOnce ==
    /\ shoutboxRegexp.makes <= 1
    /\ emojis.makes <= 1
    /\ \A c \in Callers :
          /\ strip[c].pc \notin {"panic", "fatal"}
          /\ strip[c].pc = "use" => shoutboxRegexp.keys = Range(RegexpKeys)
          /\ strip[c].pc = "range" => emojis.keys = Range(EmojiOrder)

====
